---- MODULE Spec2Model ----
(***************************************************************************)
(* A model of cutout: shapes.py (the shape descriptors, their draw methods *)
(* and the paint dispatcher paint_paths) and transformations.py (the       *)
(* rotation about a pivot), drawing onto a cairo.Context.                  *)
(*                                                                         *)
(* Numbers.  Python's floats are modelled by exact rationals <<n, d>> in   *)
(* lowest terms with d > 0, so rounding is not modelled.  Angles in        *)
(* radians are rationals counting quarter turns (pi/2 is 1, 2*pi is 4);    *)
(* cos and sin are taken only at whole quarter turns, where they are       *)
(* exact in the reals.                                                     *)
(***************************************************************************)
EXTENDS Integers, Sequences, FiniteSets, TLC

VARIABLES
    shape,      \* the shape descriptor last constructed (its fields)
    surface,    \* the cairo.Context the shapes are drawn on
    calls,      \* the calls the last operation made on the surface, in order
    outcome,    \* how the last operation ended: returned, or raised (and what)
    args,       \* the arguments of the last call that does not keep them: of a
                \* module-level function, or of Arrow(...), which resizes the head
    ret         \* what the last module-level function returned

vars == <<shape, surface, calls, outcome, args, ret>>

None == "None"

-----------------------------------------------------------------------------
(* Exact arithmetic standing for Python's float arithmetic.                *)

Abs(n) == IF n < 0 THEN -n ELSE n

RECURSIVE Gcd(_, _)
Gcd(a, b) == IF b = 0 THEN a ELSE Gcd(b, a % b)

\* n/d in lowest terms, d # 0
Q(n, d) ==
    LET g == Gcd(Abs(n), Abs(d))
        s == IF d < 0 THEN -1 ELSE 1
    IN  <<(s * n) \div g, (s * d) \div g>>

R(n) == <<n, 1>>

RAdd(a, b) == Q(a[1] * b[2] + b[1] * a[2], a[2] * b[2])
RNeg(a) == <<-a[1], a[2]>>
RSub(a, b) == RAdd(a, RNeg(b))
RMul(a, b) == Q(a[1] * b[1], a[2] * b[2])
\* b # 0: Python raises ZeroDivisionError (numpy yields inf/nan) otherwise
RDiv(a, b) == Q(a[1] * b[2], a[2] * b[1])
RLt(a, b) == a[1] * b[2] < b[1] * a[2]
RIsInt(a) == a[2] = 1

\* points and vectors are pairs of numbers
Pt(x, y) == <<R(x), R(y)>>
VAdd(p, q) == <<RAdd(p[1], q[1]), RAdd(p[2], q[2])>>
VSub(p, q) == <<RSub(p[1], q[1]), RSub(p[2], q[2])>>
VScale(k, p) == <<RMul(k, p[1]), RMul(k, p[2])>>

\* the angle unit: one quarter turn
pi == R(2)

\* math.radians: degrees to radians (here: to quarter turns)
radians(deg) == Q(deg[1], deg[2] * 90)

\* cos and sin at a whole number of quarter turns
cos(a) == CASE a[1] % 4 = 0 -> R(1)
            [] a[1] % 4 = 1 -> R(0)
            [] a[1] % 4 = 2 -> R(-1)
            [] a[1] % 4 = 3 -> R(0)

sin(a) == CASE a[1] % 4 = 0 -> R(0)
            [] a[1] % 4 = 1 -> R(1)
            [] a[1] % 4 = 2 -> R(0)
            [] a[1] % 4 = 3 -> R(-1)

-----------------------------------------------------------------------------
(* transformations.py                                                      *)

rotation_matrix(rotation_angle) ==
    << <<cos(rotation_angle), RNeg(sin(rotation_angle)), R(0)>>,
       <<sin(rotation_angle), cos(rotation_angle), R(0)>>,
       <<R(0), R(0), R(1)>> >>

translation_matrix(x_t, y_t) ==
    << <<R(1), R(0), x_t>>,
       <<R(0), R(1), y_t>>,
       <<R(0), R(0), R(1)>> >>

\* numpy's @ on 3x3 arrays
MatMul(A, B) ==
    [i \in 1..3 |->
        [j \in 1..3 |->
            RAdd(RAdd(RMul(A[i][1], B[1][j]), RMul(A[i][2], B[2][j])),
                 RMul(A[i][3], B[3][j]))]]

\* cairo.Matrix(xx, yx, xy, yy, x0, y0), from the positional arguments
Matrix(xx, yx, xy, yy, x0, y0) ==
    [xx |-> xx, yx |-> yx, xy |-> xy, yy |-> yy, x0 |-> x0, y0 |-> y0]

cairo_matrix_swapped(matrix) ==
    Matrix(matrix[1][1], matrix[1][2], matrix[2][1], matrix[2][2],
           matrix[1][3], matrix[2][3])

cairo_matrix(matrix) ==
    Matrix(matrix[1][1], matrix[2][1], matrix[1][2], matrix[2][2],
           matrix[1][3], matrix[2][3])

rotate_around_point(rotation_angle, pivot_point) ==
    LET rot_matrix == rotation_matrix(rotation_angle)
        trans_matrix_0 == translation_matrix(RNeg(pivot_point[1]), RNeg(pivot_point[2]))
        trans_matrix_1 == translation_matrix(pivot_point[1], pivot_point[2])
    IN  cairo_matrix(MatMul(MatMul(trans_matrix_1, rot_matrix), trans_matrix_0))

-----------------------------------------------------------------------------
(* The drawing surface, a cairo.Context.  A call is its name and the tuple *)
(* of its arguments.  The surface keeps a stack of saved graphics states,  *)
(* the current transformation matrix, the paint state and the current      *)
(* path; a path segment is kept as the call that made it with the matrix   *)
(* in force at that moment.  save/restore do not touch the path.           *)

Call(op, a) == [op |-> op, a |-> a]

GState(s) ==
    [matrix |-> s.matrix, source |-> s.source, line_width |-> s.line_width,
     dash |-> s.dash, line_cap |-> s.line_cap, line_join |-> s.line_join]

\* cairo_transform: the new user space maps through m first, then the old matrix
Compose(m, c) ==
    Matrix(RAdd(RMul(c.xx, m.xx), RMul(c.xy, m.yx)),
           RAdd(RMul(c.yx, m.xx), RMul(c.yy, m.yx)),
           RAdd(RMul(c.xx, m.xy), RMul(c.xy, m.yy)),
           RAdd(RMul(c.yx, m.xy), RMul(c.yy, m.yy)),
           RAdd(RAdd(RMul(c.xx, m.x0), RMul(c.xy, m.y0)), c.x0),
           RAdd(RAdd(RMul(c.yx, m.x0), RMul(c.xy, m.y0)), c.y0))

\* the point a matrix sends the point p to
ApplyMatrix(m, p) ==
    << RAdd(RAdd(RMul(m.xx, p[1]), RMul(m.xy, p[2])), m.x0),
       RAdd(RAdd(RMul(m.yx, p[1]), RMul(m.yy, p[2])), m.y0) >>

PathOps == {"move_to", "line_to", "arc", "rectangle", "close_path"}
SetterOps == {"set_source_rgba", "set_line_width", "set_dash", "set_line_cap",
              "set_line_join"}
PaintOps == {"fill", "fill_preserve", "stroke"}
\* every call but restore changes the surface or paints on it
MutatingOps == {"save", "transform"} \cup PathOps \cup SetterOps \cup PaintOps

Apply(s, c) ==
    CASE c.op = "save" -> [s EXCEPT !.stack = Append(@, GState(s))]
      [] c.op = "restore" ->
            LET g == s.stack[Len(s.stack)]
            IN  [s EXCEPT !.stack = SubSeq(@, 1, Len(@) - 1),
                          !.matrix = g.matrix, !.source = g.source,
                          !.line_width = g.line_width, !.dash = g.dash,
                          !.line_cap = g.line_cap, !.line_join = g.line_join]
      [] c.op = "transform" -> [s EXCEPT !.matrix = Compose(c.a[1], @)]
      [] c.op \in PathOps ->
            [s EXCEPT !.path = Append(@, [call |-> c, matrix |-> s.matrix])]
      [] c.op = "set_source_rgba" -> [s EXCEPT !.source = c.a]
      [] c.op = "set_line_width" -> [s EXCEPT !.line_width = c.a[1]]
      [] c.op = "set_dash" -> [s EXCEPT !.dash = c.a[1]]
      [] c.op = "set_line_cap" -> [s EXCEPT !.line_cap = c.a[1]]
      [] c.op = "set_line_join" -> [s EXCEPT !.line_join = c.a[1]]
      [] c.op = "fill_preserve" -> s
      [] c.op = "fill" -> [s EXCEPT !.path = <<>>]
      [] c.op = "stroke" -> [s EXCEPT !.path = <<>>]

\* the surface after the calls cs, made in order
RECURSIVE Run(_, _)
Run(s, cs) == IF cs = <<>> THEN s ELSE Run(Apply(s, Head(cs)), Tail(cs))

-----------------------------------------------------------------------------
(* What a function did: the calls it made on the surface, and whether it   *)
(* ended by raising (then with the ValueError's message).                  *)

NoMessage == [text |-> "", keys |-> <<>>]

Do(cs) == [calls |-> cs, raised |-> FALSE, message |-> NoMessage]

Raise(text, keys) ==
    [calls |-> <<>>, raised |-> TRUE, message |-> [text |-> text, keys |-> keys]]

\* e1 then e2; an exception in e1 propagates and e2 does not run
Then(e1, e2) ==
    IF e1.raised THEN e1
    ELSE [calls |-> e1.calls \o e2.calls, raised |-> e2.raised, message |-> e2.message]

-----------------------------------------------------------------------------
(* shapes.py: constants.  A dict is the sequence of its <<key, value>>     *)
(* items in insertion order.                                               *)

LINE_STYLES ==
    << <<"--", <<4, 1>>>>, <<"-", <<>>>>, <<".", <<0, 2>>>>, <<"-.", <<0, 2, 4, 2>>>> >>

LINE_CAPS ==
    << <<"square", "LINE_CAP_SQUARE">>, <<"round", "LINE_CAP_ROUND">>,
       <<"butt", "LINE_CAP_BUTT">> >>

LINE_JOINS ==
    << <<"bevel", "LINE_JOIN_BEVEL">>, <<"round", "LINE_JOIN_ROUND">>,
       <<"mitter", "LINE_JOIN_MITER">> >>

\* dict.keys(), as the list [key for key in d.keys()]
keys(d) == [i \in 1..Len(d) |-> d[i][1]]

\* key in d.keys()
HasKey(d, k) == \E i \in 1..Len(d) : d[i][1] = k

\* d[k]
Get(d, k) == d[CHOOSE i \in 1..Len(d) : d[i][1] = k][2]

\* colors.get_color: the colour table's entry for a name
get_color(color) == <<"rgb", color>>

-----------------------------------------------------------------------------
(* shapes.py: paint_paths                                                  *)

\* the fill branch: set the colour, fill and keep the path
FillCalls_consuming(fill_color, opacity) ==
    << Call("set_source_rgba", <<get_color(fill_color), opacity>>),
       Call("fill", <<>>) >>

FillCalls(fill_color, opacity) ==
    << Call("set_source_rgba", <<get_color(fill_color), opacity>>),
       Call("fill_preserve", <<>>) >>

\* the base pattern of the style, whatever the width
DashValues_unscaled(line_width, line_style) ==
    [i \in 1..Len(Get(LINE_STYLES, line_style)) |-> R(Get(LINE_STYLES, line_style)[i])]

\* the dash pattern: line_width * i for i in LINE_STYLES[line_style]
DashValues(line_width, line_style) ==
    [i \in 1..Len(Get(LINE_STYLES, line_style)) |->
        RMul(line_width, R(Get(LINE_STYLES, line_style)[i]))]

\* the cap set before the stroke: round for the dotted styles
StrokeCap_as_requested(line_style, line_cap) == Get(LINE_CAPS, line_cap)

StrokeCap(line_style, line_cap) ==
    IF line_style \in {".", "-."}
    THEN Get(LINE_CAPS, "round")
    ELSE Get(LINE_CAPS, line_cap)

paint_paths(fill_color, line_color, line_width, line_style, line_cap, line_join, opacity) ==
    IF ~HasKey(LINE_STYLES, line_style)
    THEN Raise("Available line styles are", keys(LINE_STYLES))
    ELSE IF ~HasKey(LINE_CAPS, line_cap)
    THEN Raise("Available line caps are", keys(LINE_CAPS))
    ELSE IF ~HasKey(LINE_JOINS, line_join)
    THEN Raise("Available line joints are", keys(LINE_CAPS))
    ELSE
    LET fill ==
            IF fill_color # None THEN FillCalls(fill_color, opacity) ELSE <<>>
        line ==
            IF line_color # None
            THEN << Call("set_source_rgba", <<get_color(line_color), opacity>>),
                    Call("set_line_width", <<line_width>>),
                    Call("set_dash", <<DashValues(line_width, line_style)>>),
                    Call("set_line_cap", <<StrokeCap(line_style, line_cap)>>),
                    Call("set_line_join", <<Get(LINE_JOINS, line_join)>>),
                    Call("stroke", <<>>) >>
            ELSE <<>>
    IN  Do(fill \o line)

-----------------------------------------------------------------------------
(* shapes.py: the shape classes.  X_init is X.__init__, giving the fields  *)
(* of the new object; X_draw is X.draw, giving what it does on the surface.*)

save == Call("save", <<>>)
restore == Call("restore", <<>>)
transform(matrix) == Call("transform", <<matrix>>)
move_to(p) == Call("move_to", <<p[1], p[2]>>)
line_to(p) == Call("line_to", <<p[1], p[2]>>)
arc(xc, yc, radius, angle1, angle2) == Call("arc", <<xc, yc, radius, angle1, angle2>>)
rectangle(x, y, width, height) == Call("rectangle", <<x, y, width, height>>)
close_path == Call("close_path", <<>>)

Circle_init(radius, position, orientation, line_color, line_width, line_style, fill_color, opacity) ==
    [kind |-> "Circle", radius |-> radius, position |-> position,
     orientation |-> orientation, line_color |-> line_color,
     line_width |-> line_width, line_style |-> line_style,
     fill_color |-> fill_color, opacity |-> opacity]

Circle_draw(self) ==
    Then(Do(<< save,
               transform(rotate_around_point(radians(self.orientation), self.position)),
               arc(self.position[1], self.position[2], self.radius, R(0),
                   RMul(R(2), pi)) >>),
    Then(paint_paths(self.fill_color, self.line_color, self.line_width,
                     self.line_style, "butt", "mitter", self.opacity),
         Do(<<restore>>)))

Rectangle_init(position, width, height, orientation, line_color, line_width, line_style, line_cap, line_join, fill_color, opacity) ==
    [kind |-> "Rectangle", position |-> position, width |-> width,
     height |-> height, orientation |-> orientation, line_color |-> line_color,
     line_width |-> line_width, line_style |-> line_style, line_cap |-> line_cap,
     line_join |-> line_join, fill_color |-> fill_color, opacity |-> opacity]

Rectangle_draw(self) ==
    LET corner_x == RSub(self.position[1], RDiv(self.width, R(2)))
        corner_y == RSub(self.position[2], RDiv(self.height, R(2)))
    IN  Then(Do(<< save,
                   transform(rotate_around_point(radians(self.orientation),
                                                 self.position)),
                   rectangle(corner_x, corner_y, self.width, self.height) >>),
        Then(paint_paths(self.fill_color, self.line_color, self.line_width,
                         self.line_style, self.line_cap, self.line_join,
                         self.opacity),
             Do(<<restore>>)))

\* np.max and np.min over one column of the points
RECURSIVE ColMax(_, _)
ColMax(points, k) ==
    IF Len(points) = 1 THEN points[1][k]
    ELSE LET m == ColMax(Tail(points), k)
         IN  IF RLt(m, points[1][k]) THEN points[1][k] ELSE m

RECURSIVE ColMin(_, _)
ColMin(points, k) ==
    IF Len(points) = 1 THEN points[1][k]
    ELSE LET m == ColMin(Tail(points), k)
         IN  IF RLt(points[1][k], m) THEN points[1][k] ELSE m

\* the position Lines.__init__ and Polygon.__init__ derive from the points
SpanHalf(points) ==
    << RDiv(RSub(ColMax(points, 1), ColMin(points, 1)), R(2)),
       RDiv(RSub(ColMax(points, 2), ColMin(points, 2)), R(2)) >>

Lines_init(points, orientation, line_color, line_style, line_width, line_cap, line_join, opacity) ==
    [kind |-> "Lines", points |-> points, orientation |-> orientation,
     line_color |-> line_color, line_style |-> line_style,
     line_width |-> line_width, line_cap |-> line_cap, line_join |-> line_join,
     opacity |-> opacity,
     max_x |-> ColMax(points, 1), min_x |-> ColMin(points, 1),
     max_y |-> ColMax(points, 2), min_y |-> ColMin(points, 2),
     position |-> SpanHalf(points)]

\* a path whose loop stops one point short
PolyPath_short(points) ==
    <<move_to(points[1])>> \o [i \in 1..(Len(points) - 2) |-> line_to(points[i + 1])]

\* move_to the first point, then the loop for i in range(1, len(points))
PolyPath(points) ==
    <<move_to(points[1])>> \o [i \in 1..(Len(points) - 1) |-> line_to(points[i + 1])]

Lines_draw(self) ==
    Then(Do(<< save,
               transform(rotate_around_point(radians(self.orientation), self.position)) >>
            \o PolyPath(self.points)),
    Then(paint_paths(None, self.line_color, self.line_width, self.line_style,
                     self.line_cap, self.line_join, self.opacity),
         Do(<<restore>>)))

Polygon_init(points, orientation, fill_color, line_color, line_style, line_width, line_cap, line_join, opacity) ==
    [kind |-> "Polygon", points |-> points, orientation |-> orientation,
     fill_color |-> fill_color, line_color |-> line_color,
     line_style |-> line_style, line_width |-> line_width,
     line_cap |-> line_cap, line_join |-> line_join, opacity |-> opacity,
     max_x |-> ColMax(points, 1), min_x |-> ColMin(points, 1),
     max_y |-> ColMax(points, 2), min_y |-> ColMin(points, 2),
     position |-> SpanHalf(points)]

Polygon_draw(self) ==
    Then(Do(<< save,
               transform(rotate_around_point(radians(self.orientation), self.position)) >>
            \o PolyPath(self.points)
            \o <<close_path>>),
    Then(paint_paths(self.fill_color, self.line_color, self.line_width,
                     self.line_style, self.line_cap, self.line_join,
                     self.opacity),
         Do(<<restore>>)))

\* the least integer not below a number
Ceil(a) == -((-a[1]) \div a[2])

\* np.arange(start, stop, step), step > 0
arange(start, stop, step) ==
    [i \in 1..Ceil(RDiv(RSub(stop, start), step)) |-> RAdd(start, RMul(R(i - 1), step))]

RegularPolygon_init(n_faces, radius, position, orientation, fill_color, line_color, line_style, line_width, line_cap, line_join, opacity) ==
    LET angles == arange(R(0), RMul(R(2), pi), RDiv(RMul(R(2), pi), n_faces))
    IN  [kind |-> "RegularPolygon", n_faces |-> n_faces, radius |-> radius,
         position |-> position, orientation |-> orientation,
         fill_color |-> fill_color, line_color |-> line_color,
         line_style |-> line_style, line_width |-> line_width,
         line_cap |-> line_cap, line_join |-> line_join, opacity |-> opacity,
         points |-> [i \in 1..Len(angles) |->
                        << RAdd(RMul(radius, cos(angles[i])), position[1]),
                           RAdd(RMul(radius, sin(angles[i])), position[2]) >>]]

\* the Polygon that RegularPolygon.draw and Star.draw build, with its position overwritten
\* the inner Polygon as its constructor leaves it
CentredPolygon_derived(self) ==
    Polygon_init(self.points, self.orientation, self.fill_color,
                 self.line_color, self.line_style, self.line_width,
                 self.line_cap, self.line_join, self.opacity)

\* the inner Polygon of RegularPolygon.draw and Star.draw, its position overridden
CentredPolygon(self) ==
    LET polygon == Polygon_init(self.points, self.orientation, self.fill_color,
                                self.line_color, self.line_style, self.line_width,
                                self.line_cap, self.line_join, self.opacity)
    IN  [polygon EXCEPT !.position = self.position]

RegularPolygon_draw(self) == Polygon_draw(CentredPolygon(self))

Star_init(n_points, external_radius, internal_radius, position, orientation, fill_color, line_color, line_style, line_width, line_cap, line_join, opacity) ==
    LET delta_angle == RDiv(RMul(R(2), pi), n_points)
        external_angles == arange(R(0), RMul(R(2), pi), delta_angle)
        internal_angles == arange(RDiv(delta_angle, R(2)), RMul(R(2), pi), delta_angle)
        ext(i) == << RAdd(RMul(external_radius, cos(external_angles[i])), position[1]),
                     RAdd(RMul(external_radius, sin(external_angles[i])), position[2]) >>
        int(i) == << RAdd(RMul(internal_radius, cos(internal_angles[i])), position[1]),
                     RAdd(RMul(internal_radius, sin(internal_angles[i])), position[2]) >>
    IN  [kind |-> "Star", n_faces |-> n_points,
         external_radius |-> external_radius, internal_radius |-> internal_radius,
         position |-> position, orientation |-> orientation,
         fill_color |-> fill_color, line_color |-> line_color,
         line_style |-> line_style, line_width |-> line_width,
         line_cap |-> line_cap, line_join |-> line_join, opacity |-> opacity,
         points |-> [k \in 1..(2 * Len(external_angles)) |->
                        IF k % 2 = 1 THEN ext((k + 1) \div 2) ELSE int(k \div 2)]]

Star_draw(self) == Polygon_draw(CentredPolygon(self))

\* math.sqrt of a number that is the square of a rational
ISqrt(n) == CHOOSE k \in 0..n : k * k = n
sqrt(a) == Q(ISqrt(a[1]), ISqrt(a[2]))

\* an optional number: None is <<>>; Python's truth of it (None and 0 are false)
NoNumber == <<>>
Truthy(x) == x # NoNumber /\ x[1] # 0

\* a resizing that lengthens the head and keeps its width
HeadSize_keeps_width(length, head_length, head_width, min_head_length) ==
    IF Truthy(min_head_length)
    THEN IF RLt(length, min_head_length)
         THEN <<R(1), head_width>>
         ELSE IF RLt(RMul(head_length, length), min_head_length)
         THEN <<RDiv(min_head_length, length), head_width>>
         ELSE <<head_length, head_width>>
    ELSE <<head_length, head_width>>

\* Arrow.__init__'s resizing of the head: <<head_length, head_width>>
HeadSize(length, head_length, head_width, min_head_length) ==
    IF Truthy(min_head_length)
    THEN IF RLt(length, min_head_length)
         THEN LET head_aspect == RDiv(head_width, head_length)
              IN  <<R(1), head_aspect>>
         ELSE IF RLt(RMul(head_length, length), min_head_length)
         THEN LET head_aspect == RDiv(head_width, head_length)
                  new_length == RDiv(min_head_length, length)
              IN  <<new_length, RMul(head_aspect, new_length)>>
         ELSE <<head_length, head_width>>
    ELSE <<head_length, head_width>>

Arrow_init(origin, vector, head_style, head_length, head_width, min_head_length, line_color, line_style, line_width, opacity) ==
    LET length == sqrt(RAdd(RMul(vector[1], vector[1]), RMul(vector[2], vector[2])))
        normal_to_arrow == << RDiv(RNeg(vector[2]), length), RDiv(vector[1], length) >>
        head == HeadSize(length, head_length, head_width, min_head_length)
        back == VAdd(origin, VScale(RSub(R(1), head[1]), vector))
        side == VScale(length, VScale(RDiv(head[2], R(2)), normal_to_arrow))
    IN  [kind |-> "Arrow", origin |-> origin, vector |-> vector, length |-> length,
         head_style |-> head_style, head_length |-> head[1], head_width |-> head[2],
         min_head_length |-> min_head_length, line_color |-> line_color,
         line_style |-> line_style, line_width |-> line_width, opacity |-> opacity,
         arrow_head_points |->
            << VAdd(origin, vector),
               VAdd(back, side),
               VAdd(origin, VScale(RSub(R(1), RMul(Q(4, 5), head[1])), vector)),
               VSub(back, side) >>]

\* a head drawn as the closed, filled four-point polygon whatever the style
Arrow_head_always_polygon(self) ==
    Polygon_draw(Polygon_init(self.arrow_head_points, R(0), self.line_color,
                              self.line_color, "-", self.line_width, "butt",
                              "bevel", self.opacity))

\* the head Arrow.draw draws, by head_style; any other style draws none
Arrow_head(self) ==
    LET p == self.arrow_head_points
    IN  CASE self.head_style = "triangle" ->
                Polygon_draw(Polygon_init(<<p[1], p[2], p[4]>>, R(0), self.line_color,
                                          self.line_color, "-", self.line_width,
                                          "butt", "bevel", self.opacity))
          [] self.head_style = "stroke" ->
                Lines_draw(Lines_init(<<p[2], p[1], p[4]>>, R(0), self.line_color,
                                      self.line_style, self.line_width, "butt",
                                      "bevel", R(1)))
          [] self.head_style = "arrow" ->
                Polygon_draw(Polygon_init(p, R(0), self.line_color, self.line_color,
                                          "-", self.line_width, "butt", "bevel",
                                          self.opacity))
          [] OTHER -> Do(<<>>)

Arrow_draw(self) ==
    Then(Do(<< move_to(self.origin), line_to(VAdd(self.origin, self.vector)) >>),
    Then(paint_paths(None, self.line_color, self.line_width, self.line_style,
                     "butt", "mitter", self.opacity),
    Then(Arrow_head(self),
         paint_paths(self.line_color, None, self.line_width, "-", "butt",
                     "mitter", self.opacity))))

RoundedRectangle_init(position, width, height, corner_radius, orientation, line_color, line_width, line_style, line_cap, line_join, fill_color, opacity) ==
    [kind |-> "RoundedRectangle", position |-> position, width |-> width,
     height |-> height, corner_radius |-> corner_radius,
     orientation |-> orientation, line_color |-> line_color,
     line_width |-> line_width, line_style |-> line_style, line_cap |-> line_cap,
     line_join |-> line_join, fill_color |-> fill_color, opacity |-> opacity]

\* a draw that leaves the corners sharp
RoundedRectangle_draw_sharp(self) == Rectangle_draw(self)

RoundedRectangle_draw(self) ==
    LET r == self.corner_radius
        hw == RDiv(self.width, R(2))
        hh == RDiv(self.height, R(2))
        p0 == self.position
        p1 == VAdd(p0, <<hw, RSub(hh, r)>>)
        p3 == VAdd(p0, <<RAdd(RNeg(hw), r), hh>>)
        p5 == VAdd(p0, <<RNeg(hw), RAdd(RNeg(hh), r)>>)
        p7 == VAdd(p0, <<RSub(hw, r), RNeg(hh)>>)
        c1 == VAdd(p0, <<RSub(hw, r), RSub(hh, r)>>)
        c2 == VAdd(p0, <<RAdd(RNeg(hw), r), RSub(hh, r)>>)
        c3 == VAdd(p0, <<RAdd(RNeg(hw), r), RAdd(RNeg(hh), r)>>)
        c4 == VAdd(p0, <<RSub(hw, r), RAdd(RNeg(hh), r)>>)
        half_pi == RDiv(pi, R(2))
    IN  Then(Do(<< save,
                   transform(rotate_around_point(radians(self.orientation), self.position)),
                   move_to(p1),
                   arc(c1[1], c1[2], r, R(0), half_pi),
                   line_to(p3),
                   arc(c2[1], c2[2], r, half_pi, pi),
                   line_to(p5),
                   arc(c3[1], c3[2], r, pi, RDiv(RMul(R(3), pi), R(2))),
                   line_to(p7),
                   arc(c4[1], c4[2], r, RDiv(RMul(R(3), pi), R(2)), RMul(R(2), pi)),
                   close_path >>),
        Then(paint_paths(self.fill_color, self.line_color, self.line_width,
                         self.line_style, self.line_cap, self.line_join,
                         self.opacity),
             Do(<<restore>>)))

-----------------------------------------------------------------------------
(* The state machine: shapes are constructed and drawn on a surface.       *)

\* tests' create_image: a new context, painted with the background colour, y flipped
create_image(width, height, background_color) ==
    [stack |-> <<>>,
     matrix |-> Matrix(R(1), R(0), R(0), R(-1), R(0), height),
     source |-> <<get_color(background_color)>>,
     line_width |-> R(2), dash |-> <<>>,
     line_cap |-> "LINE_CAP_BUTT", line_join |-> "LINE_JOIN_MITER",
     path |-> <<>>]

NoShape == [kind |-> "none"]
NoOutcome == [op |-> "none", status |-> "none", message |-> NoMessage]

\* bounds of the model
MaxDepth == 1
MaxPath == 0

\* the inputs the shapes are built from.  A paint case is
\* <<line_style, line_cap, line_join, fill_color, line_color>>.
Painted == { <<"-", "butt", "mitter", "gold", "black">> }
ValidCases ==
    Painted \cup
    { <<"-", "butt", "mitter", "gold", None>>,
      <<"-", "butt", "mitter", None, "black">>,
      <<"-", "butt", "mitter", None, None>> }
InvalidCases ==
    { <<"~", "butt", "mitter", "gold", "black">>,
      <<"-", "flat", "mitter", "gold", "black">>,
      <<"-", "butt", "miter", "gold", "black">>,
      <<"~", "butt", "mitter", None, None>> }
PaintCases == ValidCases \cup InvalidCases
Quarter == {R(90)}
Triangle == << Pt(1, 1), Pt(5, 1), Pt(3, 4) >>

Init ==
    /\ shape = NoShape
    /\ surface = create_image(R(1000), R(1000), "white")
    /\ calls = <<>>
    /\ outcome = NoOutcome
    /\ args = <<>>
    /\ ret = <<>>

NewSurface ==
    /\ surface' = create_image(R(1000), R(1000), "white")
    /\ calls' = <<>>
    /\ outcome' = NoOutcome
    /\ UNCHANGED <<shape, args, ret>>

ConstructCircle(cases, orientations) ==
    \E c \in cases, o \in orientations :
        /\ shape' = Circle_init(R(2), Pt(3, 1), o, c[5], R(3), c[1], c[4], R(1))
        /\ calls' = <<>>
        /\ outcome' = NoOutcome
        /\ UNCHANGED <<surface, args, ret>>

ConstructRectangle(cases, orientations) ==
    \E c \in cases, o \in orientations :
        /\ shape' = Rectangle_init(Pt(3, 1), R(4), R(3), o, c[5], R(3), c[1],
                                   c[2], c[3], c[4], R(1))
        /\ calls' = <<>>
        /\ outcome' = NoOutcome
        /\ UNCHANGED <<surface, args, ret>>

ConstructRoundedRectangle(radii, cases, orientations) ==
    \E r \in radii, c \in cases, o \in orientations :
        /\ shape' = RoundedRectangle_init(Pt(3, 1), R(4), R(2), r, o, c[5], R(3),
                                          c[1], c[2], c[3], c[4], R(1))
        /\ calls' = <<>>
        /\ outcome' = NoOutcome
        /\ UNCHANGED <<surface, args, ret>>

ConstructLines(pointLists, cases, orientations) ==
    \E pts \in pointLists, c \in cases, o \in orientations :
        /\ shape' = Lines_init(pts, o, c[5], c[1], R(3), c[2], c[3], R(1))
        /\ calls' = <<>>
        /\ outcome' = NoOutcome
        /\ UNCHANGED <<surface, args, ret>>

ConstructPolygon(pointLists, cases, orientations) ==
    \E pts \in pointLists, c \in cases, o \in orientations :
        /\ shape' = Polygon_init(pts, o, c[4], c[5], c[1], R(3), c[2], c[3], R(1))
        /\ calls' = <<>>
        /\ outcome' = NoOutcome
        /\ UNCHANGED <<surface, args, ret>>

ConstructRegularPolygon(faces, positions, cases, orientations) ==
    \E n \in faces, pos \in positions, c \in cases, o \in orientations :
        /\ shape' = RegularPolygon_init(R(n), R(2), pos, o, c[4], c[5], c[1],
                                        R(3), c[2], c[3], R(1))
        /\ calls' = <<>>
        /\ outcome' = NoOutcome
        /\ UNCHANGED <<surface, args, ret>>

ConstructStar(tips, positions, cases, orientations) ==
    \E n \in tips, pos \in positions, c \in cases, o \in orientations :
        /\ shape' = Star_init(R(n), R(4), R(2), pos, o, c[4], c[5], c[1],
                              R(3), c[2], c[3], R(1))
        /\ calls' = <<>>
        /\ outcome' = NoOutcome
        /\ UNCHANGED <<surface, args, ret>>

ConstructArrow(vectors, headStyles, headSizes, minimums, cases) ==
    \E v \in vectors, hs \in headStyles, h \in headSizes, m \in minimums, c \in cases :
        /\ shape' = Arrow_init(Pt(1, 1), v, hs, h[1], h[2], m, c[5], c[1], R(3), R(1))
        /\ args' = [vector |-> v, head_length |-> h[1], head_width |-> h[2],
                    min_head_length |-> m]
        /\ calls' = <<>>
        /\ outcome' = [op |-> "Arrow", status |-> "returned", message |-> NoMessage]
        /\ UNCHANGED <<surface, ret>>

\* how an operation ended
Ended(op, e) ==
    [op |-> op, status |-> IF e.raised THEN "raised" ELSE "returned",
     message |-> e.message]

\* the bounds: a draw starts with fewer than MaxDepth saved states left on the
\* stack and at most MaxPath segments left in the current path
CanDraw == Len(surface.stack) < MaxDepth /\ Len(surface.path) <= MaxPath

\* a draw is one step: every call it makes, up to its return or its exception
DrawCircle ==
    /\ shape.kind = "Circle" /\ CanDraw
    /\ surface' = Run(surface, Circle_draw(shape).calls)
    /\ calls' = Circle_draw(shape).calls
    /\ outcome' = Ended("draw", Circle_draw(shape))
    /\ UNCHANGED <<shape, args, ret>>

DrawRectangle ==
    /\ shape.kind = "Rectangle" /\ CanDraw
    /\ surface' = Run(surface, Rectangle_draw(shape).calls)
    /\ calls' = Rectangle_draw(shape).calls
    /\ outcome' = Ended("draw", Rectangle_draw(shape))
    /\ UNCHANGED <<shape, args, ret>>

DrawRoundedRectangle ==
    /\ shape.kind = "RoundedRectangle" /\ CanDraw
    /\ surface' = Run(surface, RoundedRectangle_draw(shape).calls)
    /\ calls' = RoundedRectangle_draw(shape).calls
    /\ outcome' = Ended("draw", RoundedRectangle_draw(shape))
    /\ UNCHANGED <<shape, args, ret>>

DrawLines ==
    /\ shape.kind = "Lines" /\ CanDraw
    /\ surface' = Run(surface, Lines_draw(shape).calls)
    /\ calls' = Lines_draw(shape).calls
    /\ outcome' = Ended("draw", Lines_draw(shape))
    /\ UNCHANGED <<shape, args, ret>>

DrawPolygon ==
    /\ shape.kind = "Polygon" /\ CanDraw
    /\ surface' = Run(surface, Polygon_draw(shape).calls)
    /\ calls' = Polygon_draw(shape).calls
    /\ outcome' = Ended("draw", Polygon_draw(shape))
    /\ UNCHANGED <<shape, args, ret>>

DrawRegularPolygon ==
    /\ shape.kind = "RegularPolygon" /\ CanDraw
    /\ surface' = Run(surface, RegularPolygon_draw(shape).calls)
    /\ calls' = RegularPolygon_draw(shape).calls
    /\ outcome' = Ended("draw", RegularPolygon_draw(shape))
    /\ UNCHANGED <<shape, args, ret>>

DrawStar ==
    /\ shape.kind = "Star" /\ CanDraw
    /\ surface' = Run(surface, Star_draw(shape).calls)
    /\ calls' = Star_draw(shape).calls
    /\ outcome' = Ended("draw", Star_draw(shape))
    /\ UNCHANGED <<shape, args, ret>>

DrawArrow ==
    /\ shape.kind = "Arrow" /\ CanDraw
    /\ surface' = Run(surface, Arrow_draw(shape).calls)
    /\ calls' = Arrow_draw(shape).calls
    /\ outcome' = Ended("draw", Arrow_draw(shape))
    /\ UNCHANGED <<shape, args, ret>>

Draw ==
    \/ DrawCircle
    \/ DrawRectangle
    \/ DrawRoundedRectangle
    \/ DrawLines
    \/ DrawPolygon
    \/ DrawRegularPolygon
    \/ DrawStar
    \/ DrawArrow

\* shapes of one geometry each, in every paint case, drawn in any order
Next ==
    \/ NewSurface
    \/ ConstructCircle(PaintCases, Quarter)
    \/ ConstructRectangle(PaintCases, Quarter)
    \/ ConstructRoundedRectangle({R(1)}, PaintCases, Quarter)
    \/ ConstructLines({Triangle}, PaintCases, Quarter)
    \/ ConstructPolygon({Triangle}, PaintCases, Quarter)
    \/ ConstructRegularPolygon({4}, {Pt(3, 1)}, PaintCases, Quarter)
    \/ ConstructStar({2}, {Pt(3, 1)}, PaintCases, Quarter)
    \/ ConstructArrow({Pt(10, 0)}, {"triangle", "stroke", "arrow"},
                      {<<Q(1, 10), Q(1, 20)>>}, {NoNumber}, PaintCases)
    \/ Draw

Spec == Init /\ [][Next]_vars

-----------------------------------------------------------------------------
(* The paint dispatcher called on its own, on a surface holding a path.    *)

PaintArgs(c, line_width) ==
    [fill_color |-> c[4], line_color |-> c[5], line_width |-> line_width,
     line_style |-> c[1], line_cap |-> c[2], line_join |-> c[3], opacity |-> R(1)]

Paint(a) ==
    paint_paths(a.fill_color, a.line_color, a.line_width, a.line_style,
                a.line_cap, a.line_join, a.opacity)

StyleInputs == {"--", "-", ".", "-.", "~"}
CapInputs == {"square", "round", "butt", "flat"}
JoinInputs == {"bevel", "round", "mitter", "miter"}

\* every style with every cap; every join with a good and a bad style and cap;
\* every legal style in every colour case and two widths
DispatchArgs ==
    { PaintArgs(<<st, cap, "mitter", "gold", "black">>, R(1)) :
        st \in StyleInputs, cap \in CapInputs }
    \cup
    { PaintArgs(<<c[1], c[2], join, "gold", "black">>, R(1)) :
        c \in {"-", "~"} \X {"butt", "flat"}, join \in JoinInputs }
    \cup
    { PaintArgs(<<c[1], "square", "bevel", c[2], c[3]>>, c[4]) :
        c \in {"--", "-", ".", "-."} \X {None, "gold"} \X {None, "black"} \X {R(1), R(3)} }

\* the caller traces a path on the surface, as Arrow.draw does for the shaft
TracePath(points) ==
    \E p \in points, q \in points :
        /\ Len(surface.path) <= MaxPath
        /\ surface' = Run(surface, <<move_to(p), line_to(q)>>)
        /\ calls' = <<move_to(p), line_to(q)>>
        /\ outcome' = [op |-> "trace", status |-> "returned", message |-> NoMessage]
        /\ UNCHANGED <<shape, args, ret>>

PaintPaths(inputs) ==
    \E a \in inputs :
        /\ args' = a
        /\ surface' = Run(surface, Paint(a).calls)
        /\ calls' = Paint(a).calls
        /\ outcome' = Ended("paint_paths", Paint(a))
        /\ UNCHANGED <<shape, ret>>

NextPaint ==
    \/ TracePath({Pt(1, 1), Pt(5, 1)})
    \/ PaintPaths(DispatchArgs)

SpecPaint == Init /\ [][NextPaint]_vars

-----------------------------------------------------------------------------
(* rotate_around_point called on its own.                                  *)

\* bounds of the inputs: angles of -MaxTurn..MaxTurn quarter turns, pivots with
\* coordinates in -MaxCoord..MaxCoord
MaxTurn == 4
MaxCoord == 2

Grid == { Pt(x, y) : x \in -MaxCoord..MaxCoord, y \in -MaxCoord..MaxCoord }

RotateAroundPoint ==
    \E k \in -MaxTurn..MaxTurn, pivot \in Grid :
        /\ args' = [rotation_angle |-> RMul(R(k), RDiv(pi, R(2))), pivot_point |-> pivot]
        /\ ret' = <<rotate_around_point(RMul(R(k), RDiv(pi, R(2))), pivot)>>
        /\ outcome' = [op |-> "rotate_around_point", status |-> "returned",
                       message |-> NoMessage]
        /\ UNCHANGED <<shape, surface, calls>>

NextTransform == RotateAroundPoint

SpecTransform == Init /\ [][NextTransform]_vars

-----------------------------------------------------------------------------
(* The shapes given by point lists, over many point lists and centres.     *)

MaxPoints == 3

Corners == { Pt(0, 0), Pt(4, 0), Pt(1, 3) }

\* the sequences over S of lengths 1..n
RECURSIVE Lists(_, _)
Lists(S, n) ==
    IF n = 0 THEN {}
    ELSE { <<x>> : x \in S } \cup Lists(S, n - 1)
         \cup { Append(l, x) : l \in { m \in Lists(S, n - 1) : Len(m) = n - 1 }, x \in S }

PointLists == Lists(Corners, MaxPoints)
Centres == { Pt(0, 0), Pt(3, 1) }
Turned == {R(90), R(180)}

NextPath ==
    \/ NewSurface
    \/ ConstructLines(PointLists, Painted, Turned)
    \/ ConstructPolygon(PointLists, Painted, Turned)
    \/ ConstructRegularPolygon({1, 2, 4}, Centres, Painted, Turned)
    \/ ConstructStar({1, 2}, Centres, Painted, Turned)
    \/ DrawLines
    \/ DrawPolygon
    \/ DrawRegularPolygon
    \/ DrawStar

SpecPath == Init /\ [][NextPath]_vars

-----------------------------------------------------------------------------
(* Arrows over many vectors, head sizes and minimum head lengths.          *)

Vectors == { Pt(10, 0), Pt(0, -4), Pt(3, 4) }
HeadSizes == { <<Q(1, 10), Q(1, 20)>>, <<Q(1, 2), Q(1, 4)>>, <<Q(1, 5), Q(3, 5)>> }
Minimums == { NoNumber, R(0), R(1), R(2), R(6), R(10), R(25) }
HeadStyles == {"triangle", "stroke", "arrow"}

NextArrow ==
    \/ NewSurface
    \/ ConstructArrow(Vectors, HeadStyles, HeadSizes, Minimums, Painted)
    \/ DrawArrow

SpecArrow == Init /\ [][NextArrow]_vars

-----------------------------------------------------------------------------
(* Properties.                                                             *)

\* the point q turned counter-clockwise by k quarter turns about the point p
TurnAbout(k, p, q) ==
    LET dx == RSub(q[1], p[1])
        dy == RSub(q[2], p[2])
    IN  CASE k % 4 = 0 -> << RAdd(p[1], dx), RAdd(p[2], dy) >>
          [] k % 4 = 1 -> << RSub(p[1], dy), RAdd(p[2], dx) >>
          [] k % 4 = 2 -> << RSub(p[1], dx), RSub(p[2], dy) >>
          [] k % 4 = 3 -> << RAdd(p[1], dy), RSub(p[2], dx) >>

\* C7: the six coefficients rotate_around_point returns for an angle of k quarter
\* turns and a pivot P, read as x' = a*x + c*y + e, y' = b*x + d*y + f, send every
\* point Q of the grid to P + R(angle)*(Q - P), R the counter-clockwise rotation;
\* so P is a fixed point.
C7_RotatesAboutPivot ==
    outcome.op = "rotate_around_point" =>
        /\ \A q \in Grid :
              ApplyMatrix(ret[1], q) =
                  TurnAbout(args.rotation_angle[1], args.pivot_point, q)
        /\ ApplyMatrix(ret[1], args.pivot_point) = args.pivot_point

\* a quarter turn about (2, 1) has been computed, and it sends (0, 0) to (3, -1)
C7_Witness ==
    /\ outcome.op = "rotate_around_point"
    /\ args.rotation_angle = R(1)
    /\ args.pivot_point = Pt(2, 1)
    /\ ApplyMatrix(ret[1], Pt(0, 0)) = Pt(3, -1)

\* the number of calls named op among cs
Count(cs, op) == Cardinality({ i \in 1..Len(cs) : cs[i].op = op })

\* the saves not yet restored before the i-th call of cs
Open(cs, i) == Count(SubSeq(cs, 1, i - 1), "save") - Count(SubSeq(cs, 1, i - 1), "restore")

\* a style value of the shape is not in its legal set
HasInvalidStyle(self) ==
    \/ ~HasKey(LINE_STYLES, self.line_style)
    \/ "line_cap" \in DOMAIN self /\ ~HasKey(LINE_CAPS, self.line_cap)
    \/ "line_join" \in DOMAIN self /\ ~HasKey(LINE_JOINS, self.line_join)

\* C1: a draw of a shape with a style value outside its legal set raises the
\* invalid-style error and makes no surface-mutating call.
C1_InvalidStyleDrawsNothing ==
    (outcome.op = "draw" /\ HasInvalidStyle(shape)) =>
        /\ outcome.status = "raised"
        /\ \A i \in 1..Len(calls) : calls[i].op \notin MutatingOps

\* C2: on every exit path of a draw, normal or by the invalid-style error, as many
\* restore() as save() calls were issued, so the stack of saved states is as deep
\* after the call as before.
C2_SavesRestored ==
    [][outcome'.op = "draw" =>
          /\ Count(calls', "restore") = Count(calls', "save")
          /\ Len(surface'.stack) = Len(surface.stack)]_vars

\* C3: every surface mutation of a draw falls between a save() and its matching
\* restore(), so a draw that returns leaves the transform and the paint state of
\* the surface as they were.
C3_MutationsBracketed ==
    [][(outcome'.op = "draw" /\ outcome'.status = "returned") =>
          /\ \A i \in 1..Len(calls') :
                calls'[i].op \in MutatingOps \ {"save"} => Open(calls', i) > 0
          /\ Count(calls', "restore") = Count(calls', "save")
          /\ GState(surface') = GState(surface)]_vars

-----------------------------------------------------------------------------
\* paint_paths: order of fill and stroke, the forced cap, the error text

FillOps == {"fill", "fill_preserve"}

\* the indices of the calls of cs with the given operation
At(cs, op) == { i \in 1..Len(cs) : cs[i].op = op }

\* C4: when paint_paths runs with legal style options, no stroke comes before
\* a fill; with both colours set there is a fill before the stroke, the path
\* present before the call is still the current path right after the fill,
\* and the stroke leaves the current path empty
C4_FillBeforeStroke ==
    [][(outcome'.op = "paint_paths" /\ outcome'.status = "returned") =>
        /\ \A i \in At(calls', "stroke") :
             \A j \in 1..Len(calls') : calls'[j].op \in FillOps => j < i
        /\ (args'.fill_color # None /\ args'.line_color # None) =>
             \E i \in 1..Len(calls'), j \in At(calls', "stroke") :
                /\ i < j
                /\ calls'[i].op \in FillOps
                /\ Run(surface, SubSeq(calls', 1, i)).path = surface.path
                /\ Run(surface, SubSeq(calls', 1, j - 1)).path = surface.path
                /\ Run(surface, SubSeq(calls', 1, j)).path = <<>>
                /\ surface'.path = <<>>]_vars

C4_Witness ==
    /\ outcome.op = "paint_paths"
    /\ outcome.status = "returned"
    /\ args.fill_color = "gold"
    /\ args.line_color = "black"
    /\ At(calls, "fill_preserve") = {2}
    /\ At(calls, "stroke") = {8}
    /\ surface.path = <<>>

\* C5: whenever paint_paths strokes, the one cap it sets before the stroke is
\* the round cap for the dotted and the dash-dot style, whatever legal cap was
\* requested, and the requested cap for every other style
C5_DottedCapIsRound ==
    (outcome.op = "paint_paths" /\ At(calls, "stroke") # {}) =>
        LET expected ==
                IF args.line_style \in {".", "-."} THEN "LINE_CAP_ROUND"
                ELSE CASE args.line_cap = "square" -> "LINE_CAP_SQUARE"
                       [] args.line_cap = "round" -> "LINE_CAP_ROUND"
                       [] args.line_cap = "butt" -> "LINE_CAP_BUTT"
        IN  /\ Cardinality(At(calls, "set_line_cap")) = 1
            /\ \A i \in At(calls, "set_line_cap") :
                 /\ calls[i].a = <<expected>>
                 /\ \A j \in At(calls, "stroke") : i < j
            /\ surface.line_cap = expected

C5_Witness ==
    /\ outcome.op = "paint_paths"
    /\ args.line_style = "-."
    /\ args.line_cap = "butt"
    /\ At(calls, "stroke") # {}
    /\ surface.line_cap = "LINE_CAP_ROUND"

\* C6: paint_paths raises exactly when the style, the cap or the join is not
\* a legal value, it raises before any call on the surface, and the error
\* names an offending field and lists the legal values of that same field
C6_ErrorListsLegalValuesOfField ==
    outcome.op = "paint_paths" =>
        LET badStyle == ~HasKey(LINE_STYLES, args.line_style)
            badCap == ~HasKey(LINE_CAPS, args.line_cap)
            badJoin == ~HasKey(LINE_JOINS, args.line_join)
        IN  /\ (outcome.status = "raised") <=> (badStyle \/ badCap \/ badJoin)
            /\ outcome.status = "raised" =>
                /\ calls = <<>>
                /\ \/ /\ badStyle
                      /\ outcome.message.text = "Available line styles are"
                      /\ outcome.message.keys = keys(LINE_STYLES)
                   \/ /\ badCap
                      /\ outcome.message.text = "Available line caps are"
                      /\ outcome.message.keys = keys(LINE_CAPS)
                   \/ /\ badJoin
                      /\ outcome.message.text = "Available line joints are"
                      /\ outcome.message.keys = keys(LINE_JOINS)

-----------------------------------------------------------------------------
\* the paths of Lines and Polygon, and the pivot of the rotation

PathCallOps == {"move_to", "line_to", "close_path", "arc", "rectangle"}

\* C8: Lines.draw and Polygon.draw issue save, the transform, one move_to at
\* the first point and one line_to per remaining point in the given order;
\* Polygon.draw then issues its only close_path, before every paint call, and
\* Lines.draw issues no close_path
C8_PathFollowsPoints ==
    (outcome.op = "draw" /\ shape.kind \in {"Lines", "Polygon"}) =>
        LET n == Len(shape.points)
        IN  /\ Len(calls) >= n + 2
            /\ calls[1].op = "save"
            /\ calls[2].op = "transform"
            /\ calls[3].op = "move_to" /\ calls[3].a = shape.points[1]
            /\ \A i \in 2..n :
                 calls[i + 2].op = "line_to" /\ calls[i + 2].a = shape.points[i]
            /\ At(calls, "move_to") = {3}
            /\ At(calls, "line_to") = 4..(n + 2)
            /\ shape.kind = "Polygon" =>
                 /\ At(calls, "close_path") = {n + 3}
                 /\ \A i \in 1..Len(calls) : calls[i].op \in PaintOps => i > n + 3
            /\ shape.kind = "Lines" => At(calls, "close_path") = {}
            /\ \A i \in 1..Len(calls) :
                 calls[i].op \in PathCallOps => i \in 3..(n + 3)

C8_Witness ==
    /\ outcome.op = "draw"
    /\ shape.kind = "Polygon"
    /\ shape.points = <<Pt(4, 0), Pt(1, 3), Pt(0, 0)>>
    /\ At(calls, "line_to") = {4, 5}
    /\ At(calls, "close_path") = {6}
    /\ At(calls, "fill_preserve") # {}

\* the greatest and the least of a non-empty set of numbers
Greatest(S) == CHOOSE m \in S : \A x \in S : ~RLt(m, x)
Least(S) == CHOOSE m \in S : \A x \in S : ~RLt(x, m)

\* half the width and half the height of the box around the points
HalfExtent(points) ==
    LET xs == { points[i][1] : i \in 1..Len(points) }
        ys == { points[i][2] : i \in 1..Len(points) }
    IN  << RDiv(RSub(Greatest(xs), Least(xs)), R(2)),
           RDiv(RSub(Greatest(ys), Least(ys)), R(2)) >>

\* the matrix m turns the plane by k quarter turns about the point p
TurnsAbout(m, k, p) ==
    /\ ApplyMatrix(m, p) = p
    /\ \A q \in Grid : ApplyMatrix(m, q) = TurnAbout(k, p, q)

\* C10: the transform of RegularPolygon.draw and Star.draw turns the plane
\* about the shape's own position, and not about the half extent of its
\* points when that is another point; the transform of a Polygon or a Lines
\* drawn directly turns the plane about the half extent of its points
C10_PivotOfRotation ==
    (outcome.op = "draw" /\ shape.kind \in {"RegularPolygon", "Star", "Polygon", "Lines"}) =>
        LET m == calls[2].a[1]
            k == shape.orientation[1] \div 90
            half == HalfExtent(shape.points)
        IN  /\ calls[2].op = "transform"
            /\ shape.kind \in {"RegularPolygon", "Star"} =>
                 /\ TurnsAbout(m, k, shape.position)
                 /\ (half # shape.position /\ k % 4 # 0) => ApplyMatrix(m, half) # half
            /\ shape.kind \in {"Polygon", "Lines"} => TurnsAbout(m, k, half)

C10_Witness ==
    /\ outcome.op = "draw"
    /\ shape.kind = "RegularPolygon"
    /\ shape.position = Pt(3, 1)
    /\ shape.orientation = R(90)
    /\ HalfExtent(shape.points) # Pt(3, 1)
    /\ ApplyMatrix(calls[2].a[1], Pt(3, 1)) = Pt(3, 1)
    /\ ApplyMatrix(calls[2].a[1], Pt(4, 1)) = Pt(3, 2)

-----------------------------------------------------------------------------
\* the head of an Arrow

\* C9: with min_head_length given, an arrow shorter than it gets head_length 1
\* and head_width the given width over the given length; an arrow at least
\* that long whose head (head_length times the arrow's length) is shorter than
\* it gets a head of exactly min_head_length, its ratio of width to length
\* kept; in every other case both fractions stay as given
C9_HeadResized ==
    shape.kind = "Arrow" =>
        LET hl == args.head_length
            hw == args.head_width
            m == args.min_head_length
            v == args.vector
            \* length < m, both not negative, compared by their squares
            short == RLt(RAdd(RMul(v[1], v[1]), RMul(v[2], v[2])), RMul(m, m))
        IN  /\ RMul(shape.length, shape.length) = RAdd(RMul(v[1], v[1]), RMul(v[2], v[2]))
            /\ (m # NoNumber /\ short) =>
                 /\ shape.head_length = R(1)
                 /\ shape.head_width = RDiv(hw, hl)
            /\ (m # NoNumber /\ ~short /\ RLt(RMul(hl, shape.length), m)) =>
                 /\ RMul(shape.head_length, shape.length) = m
                 /\ RMul(shape.head_width, hl) = RMul(shape.head_length, hw)
            /\ (m = NoNumber \/ (~short /\ ~RLt(RMul(hl, shape.length), m))) =>
                 /\ shape.head_length = hl
                 /\ shape.head_width = hw

C9_Witness ==
    /\ shape.kind = "Arrow"
    /\ outcome.op = "Arrow"
    /\ args.vector = Pt(3, 4)
    /\ args.min_head_length = R(6)
    /\ args.head_length = Q(1, 5)
    /\ args.head_width = Q(3, 5)
    /\ shape.head_length = R(1)
    /\ shape.head_width = R(3)

-----------------------------------------------------------------------------
\* the head Arrow.draw draws

IsPathCall(c) == c.op \in PathCallOps

\* the calls of cs from its first save to its last restore
Bracketed(cs) ==
    LET saves == At(cs, "save")
        restores == At(cs, "restore")
    IN  IF saves = {} \/ restores = {} THEN <<>>
        ELSE SubSeq(cs, CHOOSE i \in saves : \A j \in saves : i <= j,
                        CHOOSE i \in restores : \A j \in restores : j <= i)

\* the calls that traced the current path of the surface s, in order
Traced(s) == [k \in 1..Len(s.path) |-> s.path[k].call]

-----------------------------------------------------------------------------
\* the dash pattern of a stroke

\* C12: whenever paint_paths strokes, it sets the dash once, after the line
\* width and before the stroke, to the base pattern of the style with every
\* entry multiplied by line_width w: nothing for solid, 4w 1w for dashed,
\* 0 2w for dotted, 0 2w 4w 2w for dash-dot
C12_DashScaledByWidth ==
    (outcome.op = "paint_paths" /\ At(calls, "stroke") # {}) =>
        LET w == args.line_width
            times(k) == RMul(R(k), w)
            expected ==
                CASE args.line_style = "-" -> <<>>
                  [] args.line_style = "--" -> <<times(4), times(1)>>
                  [] args.line_style = "." -> <<times(0), times(2)>>
                  [] args.line_style = "-." -> <<times(0), times(2), times(4), times(2)>>
        IN  /\ Cardinality(At(calls, "set_dash")) = 1
            /\ \A d \in At(calls, "set_dash") :
                 /\ calls[d].a = <<expected>>
                 /\ \E i \in At(calls, "set_line_width") : i < d /\ calls[i].a = <<w>>
                 /\ \A j \in At(calls, "stroke") : d < j
            /\ surface.dash = expected

C12_Witness ==
    /\ outcome.op = "paint_paths"
    /\ args.line_style = "-."
    /\ args.line_width = R(3)
    /\ At(calls, "stroke") # {}
    /\ surface.dash = <<R(0), R(6), R(12), R(6)>>

-----------------------------------------------------------------------------
\* the outline of a RoundedRectangle

\* <<width, height>> of the rectangles, and the corner radii tried on them
Sizes == { <<R(4), R(2)>>, <<R(2), R(4)>>, <<R(3), R(3)>> }
Radii == { R(0), Q(1, 2), R(1), Q(3, 2) }

\* the smaller of two numbers
RMin(a, b) == IF RLt(a, b) THEN a ELSE b

\* RoundedRectangle(...) with 0 <= corner_radius <= min(width, height) / 2
ConstructRoundedRectangleSized(positions, sizes, radii, cases, orientations) ==
    \E q \in positions, wh \in sizes, r \in radii, c \in cases, o \in orientations :
        /\ ~RLt(RDiv(RMin(wh[1], wh[2]), R(2)), r)
        /\ shape' = RoundedRectangle_init(q, wh[1], wh[2], r, o, c[5], R(3),
                                          c[1], c[2], c[3], c[4], R(1))
        /\ calls' = <<>>
        /\ outcome' = NoOutcome
        /\ UNCHANGED <<surface, args, ret>>

NextRounded ==
    \/ NewSurface
    \/ ConstructRoundedRectangleSized({Pt(3, 1)}, Sizes, Radii, ValidCases, {R(0), R(90)})
    \/ DrawRoundedRectangle

SpecRounded == Init /\ [][NextRounded]_vars

\* the point of the circle about centre c with radius r at the angle a
OnCircle(c, r, a) == << RAdd(c[1], RMul(r, cos(a))), RAdd(c[2], RMul(r, sin(a))) >>

\* the k-th corner of the rectangle, counter-clockwise from the one at +x +y,
\* moved inwards by r along both axes
InsetCorner(self, k, r) ==
    LET sx == IF k \in {1, 4} THEN R(1) ELSE R(-1)
        sy == IF k \in {1, 2} THEN R(1) ELSE R(-1)
    IN  << RAdd(self.position[1], RMul(sx, RSub(RDiv(self.width, R(2)), r))),
           RAdd(self.position[2], RMul(sy, RSub(RDiv(self.height, R(2)), r))) >>

\* C13: RoundedRectangle.draw traces, between the transform and the paint,
\* move_to, arc, line_to, arc, line_to, arc, line_to, arc, close_path; the
\* k-th arc has radius corner_radius, runs from k-1 to k quarter turns and is
\* centred at the k-th corner moved inwards by corner_radius; the point of the
\* move_to or line_to before each arc is where that arc starts; each line_to
\* runs along a side from where the arc before it ends; and the one
\* close_path comes after the fourth arc and before every paint call
C13_RoundedOutline ==
    (outcome.op = "draw" /\ shape.kind = "RoundedRectangle") =>
        LET r == shape.corner_radius
            outline == SelectSeq(calls, IsPathCall)
            quarter(k) == RMul(R(k), RDiv(pi, R(2)))
        IN  /\ Len(outline) = 9
            /\ SubSeq(calls, 3, 11) = outline
            /\ [i \in 1..9 |-> outline[i].op] =
                 <<"move_to", "arc", "line_to", "arc", "line_to", "arc",
                   "line_to", "arc", "close_path">>
            /\ \A k \in 1..4 :
                 LET a == outline[2 * k].a
                     before == outline[2 * k - 1].a
                     centre == <<a[1], a[2]>>
                 IN  /\ a[3] = r
                     /\ a[4] = quarter(k - 1)
                     /\ a[5] = quarter(k)
                     /\ centre = InsetCorner(shape, k, r)
                     /\ before = OnCircle(centre, r, a[4])
                     /\ k > 1 =>
                          LET from == OnCircle(<<outline[2 * k - 2].a[1],
                                                 outline[2 * k - 2].a[2]>>, r,
                                               outline[2 * k - 2].a[5])
                          IN  from[1] = before[1] \/ from[2] = before[2]
            /\ OnCircle(<<outline[8].a[1], outline[8].a[2]>>, r, outline[8].a[5])[1]
                 = outline[1].a[1]
            /\ \A i \in 1..Len(calls) : calls[i].op \in PaintOps => i > 11

C13_Witness ==
    /\ outcome.op = "draw"
    /\ outcome.status = "returned"
    /\ shape.kind = "RoundedRectangle"
    /\ shape.width = R(4)
    /\ shape.height = R(2)
    /\ shape.corner_radius = Q(1, 2)
    /\ calls[3] = move_to(<<R(5), Q(3, 2)>>)
    /\ calls[4] = arc(Q(9, 2), Q(3, 2), Q(1, 2), R(0), R(1))
    /\ calls[11].op = "close_path"
    /\ At(calls, "stroke") # {}

-----------------------------------------------------------------------------
\* the current path a draw leaves behind

\* C14: after a draw that returns, the current path of the surface is empty,
\* whichever of fill_color and line_color is set
C14_PathEmptyAfterDraw ==
    (outcome.op = "draw" /\ outcome.status = "returned") => surface.path = <<>>

=============================================================================
